---- MODULE Spec2Model ----
(***************************************************************************)
(* Model of the rule-based intent classifier of the Travel Agency Chatbot  *)
(* API (src/main.py): the entity extractors, the ordered intent cascade of *)
(* guess_intent, its slot resolution and reply composition, and the        *)
(* POST /chat handler that applies it to one request message.              *)
(*                                                                         *)
(* Utterances are TLA+ strings; a character is a string of length one.     *)
(* Python's None is the empty tuple and a present value v is <<v>>.        *)
(* Confidence constants are kept in hundredths (0.95 is 95).               *)
(* Two reply literals of the source hold non-ASCII characters (an em dash  *)
(* and a degree sign); they are written here as "--" and " deg".           *)
(***************************************************************************)
EXTENDS Integers, Sequences, FiniteSets, TLC

VARIABLES message, response, pc

vars == <<message, response, pc>>

-----------------------------------------------------------------------------
(* Optional values *)

None == <<>>

Some(v) == <<v>>

Truthy(o) == o # None /\ o[1] # ""

-----------------------------------------------------------------------------
(* Characters and character classes of the re module (ASCII)               *)

DIGITS == {"0", "1", "2", "3", "4", "5", "6", "7", "8", "9"}

LOWER_SEQ == <<"a", "b", "c", "d", "e", "f", "g", "h", "i", "j", "k", "l", "m",
               "n", "o", "p", "q", "r", "s", "t", "u", "v", "w", "x", "y", "z">>

UPPER_SEQ == <<"A", "B", "C", "D", "E", "F", "G", "H", "I", "J", "K", "L", "M",
               "N", "O", "P", "Q", "R", "S", "T", "U", "V", "W", "X", "Y", "Z">>

LOWERS == {LOWER_SEQ[i] : i \in 1..26}

UPPERS == {UPPER_SEQ[i] : i \in 1..26}

WORD_CHARS == DIGITS \cup LOWERS \cup UPPERS \cup {"_"}

WHITESPACE == {" ", "\t", "\n"}

ToLowerMap == [c \in UPPERS |-> LOWER_SEQ[CHOOSE i \in 1..26 : UPPER_SEQ[i] = c]]

ToUpperMap == [c \in LOWERS |-> UPPER_SEQ[CHOOSE i \in 1..26 : LOWER_SEQ[i] = c]]

(* the character of s at position i, "" outside the string *)
Ch(s, i) == IF i >= 1 /\ i <= Len(s) THEN SubSeq(s, i, i) ELSE ""

(* s[i : i+n] *)
Slice(s, i, n) == IF i >= 1 /\ i + n - 1 <= Len(s) THEN SubSeq(s, i, i + n - 1) ELSE ""

RECURSIVE lower(_)
lower(s) ==
    IF s = "" THEN ""
    ELSE LET c == Head(s)
         IN (IF c \in UPPERS THEN ToLowerMap[c] ELSE c) \o lower(Tail(s))

RECURSIVE TitleFrom(_, _)
TitleFrom(s, prevCased) ==
    IF s = "" THEN ""
    ELSE LET c == Head(s)
             cased == c \in LOWERS \cup UPPERS
             out == IF ~cased THEN c
                    ELSE IF prevCased
                         THEN (IF c \in UPPERS THEN ToLowerMap[c] ELSE c)
                         ELSE (IF c \in LOWERS THEN ToUpperMap[c] ELSE c)
         IN out \o TitleFrom(Tail(s), cased)

title(s) == TitleFrom(s, FALSE)

RECURSIVE LStrip(_)
LStrip(s) == IF s # "" /\ Head(s) \in WHITESPACE THEN LStrip(Tail(s)) ELSE s

RECURSIVE RStrip(_)
RStrip(s) ==
    IF s # "" /\ Ch(s, Len(s)) \in WHITESPACE
    THEN RStrip(SubSeq(s, 1, Len(s) - 1))
    ELSE s

strip(s) == RStrip(LStrip(s))

(* the `in` operator on strings *)
Contains(s, w) == \E i \in 1..(Len(s) - Len(w) + 1) : Slice(s, i, Len(w)) = w

(* \b at the gap before position p (p in 1..Len(s)+1) *)
WordBoundary(s, p) == (Ch(s, p - 1) \in WORD_CHARS) # (Ch(s, p) \in WORD_CHARS)

(* number of consecutive characters of class cls starting at position i *)
RECURSIVE Run(_, _, _)
Run(s, i, cls) == IF Ch(s, i) \in cls THEN 1 + Run(s, i + 1, cls) ELSE 0

AllIn(s, i, n, cls) == \A j \in i..(i + n - 1) : Ch(s, j) \in cls

Min(S) == CHOOSE m \in S : \A n \in S : m <= n

Max(S) == CHOOSE m \in S : \A n \in S : m >= n

(* re.search(r"\b(w1|w2|...)\b", s) is not None, for literal alternatives *)
SearchWord(s, alts) ==
    \E i \in 1..Len(s) : \E w \in alts :
        Slice(s, i, Len(w)) = w /\ WordBoundary(s, i) /\ WordBoundary(s, i + Len(w))

-----------------------------------------------------------------------------
(* Entity extractors.  A pattern is modelled by the end position (one past *)
(* the last matched character) of its match starting at position i, 0     *)
(* when it does not match there; alternatives and greedy quantifiers are   *)
(* tried in the order of the backtracking matcher.                         *)

CITIES == <<"paris", "tokyo", "rome", "london", "new york", "nyc", "madrid",
            "berlin", "sydney", "dubai">>

CITY_PATTERN(s, i) ==
    IF ~WordBoundary(s, i) THEN 0
    ELSE LET ok == {k \in 1..Len(CITIES) :
                      /\ lower(Slice(s, i, Len(CITIES[k]))) = CITIES[k]
                      /\ WordBoundary(s, i + Len(CITIES[k]))}
         IN IF ok = {} THEN 0 ELSE i + Len(CITIES[Min(ok)])

RECURSIVE CITY_PATTERN_finditer(_, _)
CITY_PATTERN_finditer(s, i) ==
    IF i > Len(s) THEN <<>>
    ELSE LET e == CITY_PATTERN(s, i)
         IN IF e = 0 THEN CITY_PATTERN_finditer(s, i + 1)
            ELSE <<SubSeq(s, i, e - 1)>> \o CITY_PATTERN_finditer(s, e)

BOOKING_ID_PATTERN(s, i) ==
    IF ~WordBoundary(s, i) THEN 0
    ELSE LET ok == {k \in 5..8 : AllIn(s, i, k, UPPERS \cup DIGITS)
                                   /\ WordBoundary(s, i + k)}
         IN IF ok = {} THEN 0 ELSE i + Max(ok)

BOOKING_ID_PATTERN_search_last(s) ==
    LET starts == {i \in 1..Len(s) : BOOKING_ID_PATTERN(s, i) # 0}
    IN IF starts = {} THEN None
       ELSE LET i == Max(starts)
            IN Some(SubSeq(s, i, BOOKING_ID_PATTERN(s, i) - 1))

BOOKING_ID_PATTERN_search(s) ==
    LET starts == {i \in 1..Len(s) : BOOKING_ID_PATTERN(s, i) # 0}
    IN IF starts = {} THEN None
       ELSE LET i == Min(starts)
            IN Some(SubSeq(s, i, BOOKING_ID_PATTERN(s, i) - 1))

DATE_WORDS == <<"today", "tomorrow", "tonight", "next monday", "next tuesday",
                "next wednesday", "next thursday", "next friday",
                "next saturday", "next sunday">>

MONTHS == {"jan", "feb", "mar", "apr", "may", "jun", "jul", "aug", "sep",
           "oct", "nov", "dec"}

(* \d{4}-\d{1,2}-\d{1,2}\b *)
DateIso(s, i) ==
    LET cands == << <<2, 2>>, <<2, 1>>, <<1, 2>>, <<1, 1>> >>
        end(c) == i + 6 + c[1] + c[2]
        ok(c) == /\ AllIn(s, i, 4, DIGITS)
                 /\ Ch(s, i + 4) = "-"
                 /\ AllIn(s, i + 5, c[1], DIGITS)
                 /\ Ch(s, i + 5 + c[1]) = "-"
                 /\ AllIn(s, i + 6 + c[1], c[2], DIGITS)
                 /\ WordBoundary(s, end(c))
        idx == {j \in 1..4 : ok(cands[j])}
    IN IF idx = {} THEN 0 ELSE end(cands[Min(idx)])

(* \d{1,2}/\d{1,2}(?:/\d{2,4})?\b ; c[3] = 0 is the optional group skipped *)
DateSlash(s, i) ==
    LET A == <<2, 1>>
        C == <<4, 3, 2, 0>>
        cands == [j \in 1..16 |-> <<A[((j - 1) \div 8) + 1],
                                    A[(((j - 1) \div 4) % 2) + 1],
                                    C[((j - 1) % 4) + 1]>>]
        end(c) == i + c[1] + 1 + c[2] + (IF c[3] = 0 THEN 0 ELSE 1 + c[3])
        ok(c) == /\ AllIn(s, i, c[1], DIGITS)
                 /\ Ch(s, i + c[1]) = "/"
                 /\ AllIn(s, i + c[1] + 1, c[2], DIGITS)
                 /\ \/ c[3] = 0
                    \/ /\ Ch(s, i + c[1] + 1 + c[2]) = "/"
                       /\ AllIn(s, i + c[1] + 2 + c[2], c[3], DIGITS)
                 /\ WordBoundary(s, end(c))
        idx == {j \in 1..16 : ok(cands[j])}
    IN IF idx = {} THEN 0 ELSE end(cands[Min(idx)])

(* (?:jan|...|dec)[a-z]*\s+\d{1,2}\b under re.I.  [a-z]* and \s+ must take *)
(* their whole run: a shorter take leaves a letter (or a space) where \s   *)
(* (or \d) is required.                                                    *)
DateMonth(s, i) ==
    LET l == Run(s, i + 3, LOWERS \cup UPPERS)
        w == Run(s, i + 3 + l, WHITESPACE)
        d == i + 3 + l + w
        ok == {k \in 1..2 : AllIn(s, d, k, DIGITS) /\ WordBoundary(s, d + k)}
    IN IF lower(Slice(s, i, 3)) \in MONTHS /\ w >= 1 /\ ok # {}
       THEN d + Max(ok) ELSE 0

DATE_PATTERN(s, i) ==
    IF ~WordBoundary(s, i) THEN 0
    ELSE IF DateIso(s, i) # 0 THEN DateIso(s, i)
    ELSE IF DateSlash(s, i) # 0 THEN DateSlash(s, i)
    ELSE DateMonth(s, i)

RECURSIVE DATE_PATTERN_finditer(_, _)
DATE_PATTERN_finditer(s, i) ==
    IF i > Len(s) THEN <<>>
    ELSE LET e == DATE_PATTERN(s, i)
         IN IF e = 0 THEN DATE_PATTERN_finditer(s, i + 1)
            ELSE <<SubSeq(s, i, e - 1)>> \o DATE_PATTERN_finditer(s, e)

DATE_PATTERN_search(s) ==
    LET starts == {i \in 1..Len(s) : DATE_PATTERN(s, i) # 0}
    IN IF starts = {} THEN None
       ELSE LET i == Min(starts)
            IN Some(SubSeq(s, i, DATE_PATTERN(s, i) - 1))

extract_date_words_first(text) ==
    LET m == DATE_PATTERN_search(text)
        found == {k \in 1..Len(DATE_WORDS) : Contains(lower(text), DATE_WORDS[k])}
    IN IF found # {} THEN Some(DATE_WORDS[Min(found)])
       ELSE IF m # None THEN m
       ELSE None

extract_date(text) ==
    LET m == DATE_PATTERN_search(text)
        found == {k \in 1..Len(DATE_WORDS) : Contains(lower(text), DATE_WORDS[k])}
    IN IF m # None THEN m
       ELSE IF found # {} THEN Some(DATE_WORDS[Min(found)])
       ELSE None

extract_cities(text) ==
    LET ms == CITY_PATTERN_finditer(text, 1)
    IN [k \in 1..Len(ms) |-> lower(ms[k])]

-----------------------------------------------------------------------------
(* Intent predicates of guess_intent, each over the lowercased utterance   *)

(* \b(hi|hello|hey|good\s+(morning|afternoon|evening))\b *)
IsGreeting(low) ==
    \/ SearchWord(low, {"hi", "hello", "hey"})
    \/ \E i \in 1..Len(low) : \E x \in {"morning", "afternoon", "evening"} :
          LET w == Run(low, i + 4, WHITESPACE)
          IN /\ WordBoundary(low, i)
             /\ Slice(low, i, 4) = "good"
             /\ w >= 1
             /\ Slice(low, i + 4 + w, Len(x)) = x
             /\ WordBoundary(low, i + 4 + w + Len(x))

IsThanks(low) == SearchWord(low, {"thanks", "thank you", "cheers", "appreciate it"})

IsHelp(low) == SearchWord(low, {"help", "what can you do", "options"})

IsCancelBooking(low) ==
    /\ SearchWord(low, {"cancel", "void"})
    /\ SearchWord(low, {"booking", "reservation"})

IsBookHotel(low) ==
    /\ SearchWord(low, {"hotel", "stay", "accommodation"})
    /\ SearchWord(low, {"book", "reserve", "find"})

IsSearchFlights(low) ==
    /\ SearchWord(low, {"flight", "flights", "plane"})
    /\ SearchWord(low, {"from", "to"})

IsWeather(low) == SearchWord(low, {"weather", "forecast"})

-----------------------------------------------------------------------------
(* ChatResponse and the branches of guess_intent                           *)

ChatResponse(intent, confidence, slots, reply, follow_up) ==
    [intent |-> intent, confidence |-> confidence, slots |-> slots,
     reply |-> reply, follow_up |-> follow_up]

NoSlots == [k \in {} |-> None]

RECURSIVE Join(_, _)
Join(sep, parts) ==
    IF Len(parts) = 0 THEN ""
    ELSE IF Len(parts) = 1 THEN parts[1]
    ELSE parts[1] \o sep \o Join(sep, Tail(parts))

GreetingWithLocation ==
    ChatResponse("greeting", 95, [location |-> None],
        "Hi! Where would you like to travel? I can search flights and hotels, or check the weather.",
        None)

Greeting ==
    ChatResponse("greeting", 95, NoSlots,
        "Hi! Where would you like to travel? I can search flights and hotels, or check the weather.",
        None)

Thanks ==
    ChatResponse("thanks", 95, NoSlots,
        "You're welcome! Anything else I can help with?", None)

Help ==
    ChatResponse("help", 90, NoSlots,
        "I can: 1) find flights, 2) book hotels, 3) check weather, 4) cancel bookings if you have an ID.",
        None)

FallbackUnknown ==
    ChatResponse("unknown", 0, NoSlots,
        "I'm not sure I understood. Try asking me to find flights, book a hotel, check weather, or cancel a booking.",
        None)

Fallback ==
    ChatResponse("fallback", 40, NoSlots,
        "I'm not sure I understood. Try asking me to find flights, book a hotel, check weather, or cancel a booking.",
        None)

CancelBookingAsking(text) ==
    LET bid == BOOKING_ID_PATTERN_search(text)
        reply == IF ~Truthy(bid) THEN "I can help cancel that. What's the booking ID?"
                 ELSE "Okay, I can cancel booking " \o bid[1] \o ". Do you want me to proceed?"
    IN ChatResponse("cancel_booking", 85,
                    IF Truthy(bid) THEN [k \in {"booking_id"} |-> bid] ELSE NoSlots,
                    reply,
                    IF Truthy(bid) THEN None ELSE Some("Please provide missing details if any."))

CancelBooking(text) ==
    LET bid == BOOKING_ID_PATTERN_search(text)
        reply == IF ~Truthy(bid) THEN "I can help cancel that. What's the booking ID?"
                 ELSE "Okay, I can cancel booking " \o bid[1] \o ". Do you want me to proceed?"
    IN ChatResponse("cancel_booking", 85,
                    IF Truthy(bid) THEN [k \in {"booking_id"} |-> bid] ELSE NoSlots,
                    reply, None)

HotelDatesSwapped(text) ==
    LET dates == DATE_PATTERN_finditer(text, 1)
    IN IF Len(dates) >= 2 THEN <<Some(dates[2]), Some(dates[1])>>
       ELSE <<extract_date(text), None>>

(* <<date1, date2>> of the book_hotel branch *)
HotelDates(text) ==
    LET dates == DATE_PATTERN_finditer(text, 1)
    IN IF Len(dates) >= 2 THEN <<Some(dates[1]), Some(dates[2])>>
       ELSE <<extract_date(text), None>>

HotelReplyCheckInFirst(cities, date1, date2) ==
    IF Len(cities) > 0 /\ Truthy(date1)
    THEN "Great. What's your check-out date for " \o title(cities[1])
         \o " after " \o date1[1] \o "?"
    ELSE IF Len(cities) > 0 /\ Truthy(date1) /\ Truthy(date2)
    THEN "Got it. Searching hotels in " \o title(cities[1]) \o " from "
         \o date1[1] \o " to " \o date2[1] \o "..."
    ELSE IF Len(cities) > 0
    THEN "Great. What dates would you like in " \o title(cities[1]) \o "?"
    ELSE "Sure, what city and dates are you looking at?"

HotelReply(cities, date1, date2) ==
    IF Len(cities) > 0 /\ Truthy(date1) /\ Truthy(date2)
    THEN "Got it. Searching hotels in " \o title(cities[1]) \o " from "
         \o date1[1] \o " to " \o date2[1] \o "..."
    ELSE IF Len(cities) > 0 /\ Truthy(date1)
    THEN "Great. What's your check-out date for " \o title(cities[1])
         \o " after " \o date1[1] \o "?"
    ELSE IF Len(cities) > 0
    THEN "Great. What dates would you like in " \o title(cities[1]) \o "?"
    ELSE "Sure, what city and dates are you looking at?"

BookHotel(text) ==
    LET cities == extract_cities(text)
        date1 == HotelDates(text)[1]
        date2 == HotelDates(text)[2]
    IN ChatResponse("book_hotel", 80,
                    [location |-> IF Len(cities) > 0 THEN Some(cities[1]) ELSE None,
                     check_in |-> date1, check_out |-> date2],
                    HotelReply(cities, date1, date2),
                    Some("Please provide missing details if any."))

FlightSlotsSwapped(cities, low) ==
    IF Len(cities) >= 2 THEN <<Some(cities[2]), Some(cities[1])>>
    ELSE IF Len(cities) = 1 /\ Contains(low, "from") THEN <<Some(cities[1]), None>>
    ELSE IF Len(cities) = 1 /\ Contains(low, "to") THEN <<None, Some(cities[1])>>
    ELSE <<None, None>>

(* <<slots["from"], slots["to"]>> of the search_flights branch *)
FlightSlots(cities, low) ==
    IF Len(cities) >= 2 THEN <<Some(cities[1]), Some(cities[2])>>
    ELSE IF Len(cities) = 1 /\ Contains(low, "from") THEN <<Some(cities[1]), None>>
    ELSE IF Len(cities) = 1 /\ Contains(low, "to") THEN <<None, Some(cities[1])>>
    ELSE <<None, None>>

SearchFlights(text, low) ==
    LET cities == extract_cities(text)
        date == extract_date(text)
        from == FlightSlots(cities, low)[1]
        to == FlightSlots(cities, low)[2]
        parts == (IF Truthy(from) THEN <<"from " \o title(from[1])>> ELSE <<>>)
                 \o (IF Truthy(to) THEN <<"to " \o title(to[1])>> ELSE <<>>)
                 \o (IF Truthy(date) THEN <<"on " \o date[1]>> ELSE <<>>)
        reply == IF Len(parts) > 0 THEN Join(" ", <<"Got it.">> \o parts) \o "..."
                 ELSE "Sure -- what's your origin, destination, and date?"
    IN ChatResponse("search_flights", 82,
                    [k \in {"from", "to", "date"} |->
                        IF k = "from" THEN from ELSE IF k = "to" THEN to ELSE date],
                    reply, None)

Weather(text) ==
    LET cities == extract_cities(text)
        date == extract_date(text)
        reply == IF Len(cities) > 0 /\ Truthy(date)
                 THEN "Forecast for " \o title(cities[1]) \o " on " \o date[1]
                      \o ": 23 degC, partly cloudy (sample)."
                 ELSE "I can get the forecast. Which city and date?"
    IN ChatResponse("weather", 78,
                    [location |-> IF Len(cities) > 0 THEN Some(cities[1]) ELSE None,
                     date |-> date],
                    reply, None)

guess_intent_hotel_first(msg) ==
    LET text == strip(msg)
        low == lower(text)
    IN IF IsGreeting(low) THEN Greeting
       ELSE IF IsThanks(low) THEN Thanks
       ELSE IF IsHelp(low) THEN Help
       ELSE IF IsBookHotel(low) THEN BookHotel(text)
       ELSE IF IsCancelBooking(low) THEN CancelBooking(text)
       ELSE IF IsSearchFlights(low) THEN SearchFlights(text, low)
       ELSE IF IsWeather(low) THEN Weather(text)
       ELSE Fallback

guess_intent(msg) ==
    LET text == strip(msg)
        low == lower(text)
    IN IF IsGreeting(low) THEN Greeting
       ELSE IF IsThanks(low) THEN Thanks
       ELSE IF IsHelp(low) THEN Help
       ELSE IF IsCancelBooking(low) THEN CancelBooking(text)
       ELSE IF IsBookHotel(low) THEN BookHotel(text)
       ELSE IF IsSearchFlights(low) THEN SearchFlights(text, low)
       ELSE IF IsWeather(low) THEN Weather(text)
       ELSE Fallback

-----------------------------------------------------------------------------
(* POST /chat: one request message, answered by guess_intent               *)

chat ==
    /\ pc = "received"
    /\ response' = Some(guess_intent(message))
    /\ pc' = "responded"
    /\ UNCHANGED message

Next == chat

(* all sentences of at most n words of V, joined by single spaces *)
RECURSIVE Sentences(_, _)
Sentences(V, n) ==
    IF n = 0 THEN {""}
    ELSE LET P == Sentences(V, n - 1)
         IN P \cup {IF p = "" THEN w ELSE p \o " " \o w : p \in P, w \in V}

(* the same messages, also with surrounding whitespace *)
Padded(U) == U \cup {" " \o u \o " " : u \in U}

(* the request arrives with its message; nothing is answered yet *)
InitOn(U) ==
    /\ message \in U
    /\ response = None
    /\ pc = "received"

MaxWords == 4

IntentWords == {"hi", "thanks", "help", "cancel", "booking", "hotel", "book",
                "flight", "to", "weather"}

Init == InitOn(Sentences(IntentWords, MaxWords))

Spec == Init /\ [][Next]_vars

(* phrases that trigger each intent, with an incidental city and date range *)
MaxPhrases == 3

Phrases == {"hi", "thanks", "help", "cancel booking", "book hotel", "flight to",
            "weather", "Paris", "7/1-7/5"}

InitPhrases == InitOn(Padded(Sentences(Phrases, MaxPhrases)))

SpecPhrases == InitPhrases /\ [][Next]_vars

MaxCancelWords == 4

CancelWords == {"cancel", "booking", "BOOKING", "ABC123", "9XZ45", "ABCD",
                "ABCDEFGHI", "ABC12x"}

InitCancel == InitOn(Padded(Sentences(CancelWords, MaxCancelWords)))

SpecCancel == InitCancel /\ [][Next]_vars

MaxHotelWords == 4

HotelWords == {"book a hotel", "New York", "7/5", "2024-07-01", "tomorrow"}

InitHotel == InitOn(Sentences(HotelWords, MaxHotelWords))

SpecHotel == InitHotel /\ [][Next]_vars

MaxFlightWords == 4

FlightWords == {"flight", "from", "to", "fromage", "Paris", "Rome", "tomorrow"}

InitFlights == InitOn(Sentences(FlightWords, MaxFlightWords))

SpecFlights == InitFlights /\ [][Next]_vars

MaxDateWords == 3

DateWords == {"weather", "tomorrow", "Next Friday", "todayish", "7/5",
              "2024-07-01", "Jul 5", "jul5"}

InitDates == InitOn(Padded(Sentences(DateWords, MaxDateWords)))

SpecDates == InitDates /\ [][Next]_vars

-----------------------------------------------------------------------------
(* Properties of the answered request                                      *)

Responded == pc = "responded"

Resp == response[1]

Text == strip(message)

Low == lower(Text)

RULE_ORDER == <<"greeting", "thanks", "help", "cancel_booking", "book_hotel",
                "search_flights", "weather", "fallback">>

(* C1: the intent of the response is the earliest rule, in the order       *)
(* greeting, thanks, help, cancel_booking, book_hotel, search_flights,     *)
(* weather, fallback, whose predicate holds of the lowercased utterance;   *)
(* no later rule is reported while an earlier predicate holds.             *)
C1_PriorityOrder ==
    Responded =>
        LET low == Low
            holds == <<IsGreeting(low), IsThanks(low), IsHelp(low),
                       IsCancelBooking(low), IsBookHotel(low), IsSearchFlights(low),
                       IsWeather(low), TRUE>>
            first == Min({k \in 1..8 : holds[k]})
        IN /\ Resp.intent = RULE_ORDER[first]
           /\ \A j, k \in 1..8 : (j < k /\ holds[j]) => Resp.intent # RULE_ORDER[k]

C1_Witness ==
    /\ Responded
    /\ IsCancelBooking(Low)
    /\ IsBookHotel(Low)
    /\ Resp.intent = "cancel_booking"

INTENT_NAMES == {"greeting", "search_flights", "book_hotel", "cancel_booking",
                 "weather", "thanks", "help", "fallback"}

NoRuleMatches(low) ==
    ~(\/ IsGreeting(low) \/ IsThanks(low) \/ IsHelp(low) \/ IsCancelBooking(low)
      \/ IsBookHotel(low) \/ IsSearchFlights(low) \/ IsWeather(low))

(* C2: every request, the empty message included, is answered, with one of *)
(* the eight intents; when no rule predicate matches the answer is         *)
(* fallback with confidence 0.4.                                           *)
C2_Total ==
    Responded =>
        /\ response # None
        /\ Resp.intent \in INTENT_NAMES
        /\ NoRuleMatches(Low) => (Resp.intent = "fallback" /\ Resp.confidence = 40)
        /\ message = "" => (Resp.intent = "fallback" /\ Resp.confidence = 40)

C2_Witness ==
    /\ Responded
    /\ message = ""
    /\ Resp.intent = "fallback"
    /\ Resp.confidence = 40

(* C3: a greeting, thanks, help or fallback response has no slot keys,     *)
(* whatever cities, dates or identifiers the utterance holds.              *)
C3_NoSlots ==
    (Responded /\ Resp.intent \in {"greeting", "thanks", "help", "fallback"})
        => DOMAIN Resp.slots = {}

C3_Witness ==
    /\ Responded
    /\ Resp.intent = "greeting"
    /\ Len(CITY_PATTERN_finditer(Text, 1)) > 0
    /\ Len(DATE_PATTERN_finditer(Text, 1)) > 0
    /\ DOMAIN Resp.slots = {}

(* maximal runs of word characters, left to right *)
RECURSIVE WordTokens(_, _)
WordTokens(s, i) ==
    IF i > Len(s) THEN <<>>
    ELSE LET n == Run(s, i, WORD_CHARS)
         IN IF n = 0 THEN WordTokens(s, i + 1)
            ELSE <<Slice(s, i, n)>> \o WordTokens(s, i + n)

IsIdToken(t) == Len(t) \in 5..8 /\ AllIn(t, 1, Len(t), UPPERS \cup DIGITS)

IdTokens == SelectSeq(WordTokens(message, 1), IsIdToken)

(* C4: a cancel_booking response has the slots {booking_id: v}, v the      *)
(* leftmost token of 5 to 8 uppercase letters and digits of the utterance, *)
(* or no key at all when there is no such token; booking_id is never null. *)
C4_CancelSlots ==
    (Responded /\ Resp.intent = "cancel_booking") =>
        /\ IF Len(IdTokens) > 0
           THEN /\ DOMAIN Resp.slots = {"booking_id"}
                /\ Resp.slots["booking_id"] = Some(IdTokens[1])
           ELSE DOMAIN Resp.slots = {}
        /\ \A k \in DOMAIN Resp.slots : Resp.slots[k] # None

C4_Witness ==
    /\ Responded
    /\ Resp.intent = "cancel_booking"
    /\ Len(IdTokens) >= 2
    /\ IdTokens[1] # IdTokens[2]
    /\ Resp.slots = [k \in {"booking_id"} |-> Some(IdTokens[1])]

StructuralDates == DATE_PATTERN_finditer(Text, 1)

(* C5: a book_hotel response has exactly the keys location, check_in and   *)
(* check_out; with two or more structural dates check_in is the first and  *)
(* check_out the second, otherwise check_out is null and check_in is the   *)
(* single-date extractor's result.                                         *)
C5_HotelDates ==
    (Responded /\ Resp.intent = "book_hotel") =>
        /\ DOMAIN Resp.slots = {"location", "check_in", "check_out"}
        /\ IF Len(StructuralDates) >= 2
           THEN /\ Resp.slots["check_in"] = Some(StructuralDates[1])
                /\ Resp.slots["check_out"] = Some(StructuralDates[2])
           ELSE /\ Resp.slots["check_out"] = None
                /\ Resp.slots["check_in"] = extract_date(Text)

C5_Witness ==
    /\ Responded
    /\ Resp.intent = "book_hotel"
    /\ Len(StructuralDates) >= 2
    /\ StructuralDates[1] # StructuralDates[2]
    /\ Resp.slots["check_in"] = Some(StructuralDates[1])
    /\ Resp.slots["check_out"] = Some(StructuralDates[2])

Cities == extract_cities(Text)

(* C6: with exactly one city, search_flights fills `from` (and leaves `to` *)
(* null) when the word "from" occurs in the lowercased utterance, and      *)
(* otherwise fills `to` (and leaves `from` null) when the word "to" occurs.*)
C6_WordDisambiguation ==
    (Responded /\ Resp.intent = "search_flights" /\ Len(Cities) = 1) =>
        IF SearchWord(Low, {"from"})
        THEN Resp.slots["from"] = Some(Cities[1]) /\ Resp.slots["to"] = None
        ELSE SearchWord(Low, {"to"}) =>
                (Resp.slots["to"] = Some(Cities[1]) /\ Resp.slots["from"] = None)

(* C7: a search_flights response has exactly the keys from, to and date,   *)
(* date being the single-date extractor's result; with two or more cities  *)
(* `from` is the first and `to` the second match, left to right; with no   *)
(* city both are null.                                                     *)
C7_FlightSlots ==
    (Responded /\ Resp.intent = "search_flights") =>
        /\ DOMAIN Resp.slots = {"from", "to", "date"}
        /\ Resp.slots["date"] = extract_date(Text)
        /\ Len(Cities) >= 2 =>
              (Resp.slots["from"] = Some(Cities[1]) /\ Resp.slots["to"] = Some(Cities[2]))
        /\ Len(Cities) = 0 => (Resp.slots["from"] = None /\ Resp.slots["to"] = None)

C7_Witness ==
    /\ Responded
    /\ Resp.intent = "search_flights"
    /\ Len(Cities) >= 2
    /\ Cities[1] # Cities[2]
    /\ Resp.slots["from"] = Some(Cities[1])
    /\ Resp.slots["to"] = Some(Cities[2])

(* C8: follow_up is non-null exactly when the intent is book_hotel, and is *)
(* then "Please provide missing details if any.", slots filled or not.     *)
C8_FollowUp ==
    Responded =>
        /\ Resp.follow_up # None <=> Resp.intent = "book_hotel"
        /\ Resp.intent = "book_hotel" =>
              Resp.follow_up = Some("Please provide missing details if any.")

C8_Witness ==
    /\ Responded
    /\ Resp.intent = "book_hotel"
    /\ \A k \in DOMAIN Resp.slots : Resp.slots[k] # None
    /\ Resp.follow_up = Some("Please provide missing details if any.")

StartsWith(s, p) == Slice(s, 1, Len(p)) = p

(* C9: the book_hotel reply is the confirmation (capitalized city, both    *)
(* dates) exactly when all three slots are non-null, the ask-for-check-out *)
(* reply exactly when only check_out is null, the ask-for-dates reply      *)
(* exactly when location is non-null and check_in null, and the generic    *)
(* prompt exactly when location is null.                                   *)
C9_HotelReply ==
    (Responded /\ Resp.intent = "book_hotel") =>
        LET loc == Resp.slots["location"]
            ci == Resp.slots["check_in"]
            co == Resp.slots["check_out"]
            reply == Resp.reply
        IN /\ StartsWith(reply, "Got it. Searching hotels in ")
                 <=> (loc # None /\ ci # None /\ co # None)
           /\ (loc # None /\ ci # None /\ co # None) =>
                 /\ reply = "Got it. Searching hotels in " \o title(loc[1])
                            \o " from " \o ci[1] \o " to " \o co[1] \o "..."
                 /\ Ch(reply, 29) \in UPPERS
           /\ StartsWith(reply, "Great. What's your check-out date for ")
                 <=> (loc # None /\ ci # None /\ co = None)
           /\ StartsWith(reply, "Great. What dates would you like in ")
                 <=> (loc # None /\ ci = None)
           /\ reply = "Sure, what city and dates are you looking at?" <=> loc = None

C9_Witness ==
    /\ Responded
    /\ Resp.intent = "book_hotel"
    /\ \A k \in DOMAIN Resp.slots : Resp.slots[k] # None
    /\ StartsWith(Resp.reply, "Got it. Searching hotels in New York from ")

RelativePhrases ==
    {DATE_WORDS[k] : k \in {j \in 1..Len(DATE_WORDS) : Contains(Low, DATE_WORDS[j])}}

IndexOf(s, w) == Min({i \in 1..Len(s) : Slice(s, i, Len(w)) = w})

(* C10: the single date of a weather response (extract_date) is the        *)
(* leftmost structural date whenever the text has one, even after an       *)
(* earlier relative phrase; without a structural date it is a relative     *)
(* phrase contained in the text; it is null exactly when the text has      *)
(* neither.                                                                *)
C10_ExtractDate ==
    (Responded /\ Resp.intent = "weather") =>
        LET d == Resp.slots["date"]
        IN /\ Len(StructuralDates) > 0 => d = Some(StructuralDates[1])
           /\ Len(StructuralDates) = 0 =>
                 (d = None \/ (d # None /\ d[1] \in RelativePhrases))
           /\ d = None <=> (Len(StructuralDates) = 0 /\ RelativePhrases = {})

C10_Witness ==
    /\ Responded
    /\ Resp.intent = "weather"
    /\ Len(StructuralDates) > 0
    /\ \E w \in RelativePhrases : IndexOf(Low, w) < IndexOf(Text, StructuralDates[1])
    /\ Resp.slots["date"] = Some(StructuralDates[1])

====
